---- MODULE Spec2Model ----
(***************************************************************************)
(* Model of src/main.py: Resources, Task and TaskQueue.                    *)
(*                                                                         *)
(* The specifications share the variables below:                           *)
(*   Spec     any add_task / get_task calls over small pools of tasks and   *)
(*            availability vectors;                                        *)
(*   SpecRef  the eight reference tasks of TaskQueueTest.add_tasks added in *)
(*            any order, then the polls of TaskQueueTest.test_get_task;     *)
(*   SpecSat  Resources.satisfy applied to every pair of vectors of a       *)
(*            bounded integer range;                                       *)
(*   SpecLt   Task.__lt__ applied to every pair of tasks of a pool;         *)
(*   SpecRun  a caller that gives every task a fresh id, with the tasks     *)
(*            added and returned so far and the polls since the last add;   *)
(*   SpecRequeue  any calls, where a returned task may be added back at     *)
(*            once;                                                        *)
(*   SpecConc two callers without a lock: one whose add_task and get_task   *)
(*            each take two steps, and one whose calls run between them.    *)
(***************************************************************************)
EXTENDS Integers, Sequences, FiniteSets, Bags

VARIABLES queue,      \* TaskQueue.queue: the stored list of tasks
          prev,       \* value of TaskQueue.queue before the last call
          call,       \* the last call: its name, argument and return value
          added,      \* SpecRef: ids of the reference tasks added so far
          calls,      \* SpecRef: the get_task calls made so far, in order
          required,   \* SpecSat: self of Resources.satisfy
          available,  \* SpecSat: available_resources of Resources.satisfy
          result,     \* SpecSat: <<>> before the call, <<returned bool>> after
          lhs,        \* SpecLt: self of Task.__lt__
          rhs,        \* SpecLt: other of Task.__lt__
          less,       \* SpecLt: <<>>, then <<lhs < rhs, rhs < lhs>>
          put,        \* SpecRun: bag of the tasks passed to add_task
          got,        \* SpecRun: bag of the tasks returned by get_task
          start,      \* SpecRun: the queue as the last add_task left it
          log,        \* SpecRun: the get_task calls since the last add_task
          requeue,    \* SpecRequeue: whether the last call added back the task
                      \* of the get_task before it, and the queue before both
          pc,         \* SpecConc: where the two-step caller is in its call
          dirty,      \* SpecConc: the queue changed since that call's first step
          raced,      \* SpecConc: some second step ran on a changed queue
          lastPop     \* SpecConc: the last get_task the two-step caller finished

ltVars == <<lhs, rhs, less>>

runVars == <<put, got, start, log>>

reqVars == <<requeue>>

concVars == <<pc, dirty, raced, lastPop>>

\* the variables the specifications of the early sections leave alone
extra == <<ltVars, runVars, reqVars, concVars>>

vars == <<queue, prev, call, added, calls, required, available, result, extra>>

(***************************************************************************)
(* Bounds                                                                  *)
(***************************************************************************)
MaxQueue == 3       \* add_task is not called on a queue of this length
MaxPriority == 2    \* task priorities are 1..MaxPriority
MaxCalls == 5       \* SpecRef: number of get_task calls
MaxVal == 1         \* SpecSat: vector components are -MaxVal..MaxVal
MaxAdds == 3        \* SpecRun: number of add_task calls
MaxConcQueue == 2   \* SpecConc: no add_task starts on a queue of this length

(***************************************************************************)
(* Resources                                                               *)
(***************************************************************************)
Resources(ram, cpu_cores, gpu_count) ==
    [ram |-> ram, cpu_cores |-> cpu_cores, gpu_count |-> gpu_count]

astuple(r) == <<r.ram, r.cpu_cores, r.gpu_count>>

RECURSIVE sum(_)
sum(s) == IF s = <<>> THEN 0 ELSE Head(s) + sum(Tail(s))

\* operator.lt in place of operator.le
lt(a, b) == a < b

le(a, b) == a <= b

\* map(le, s, t): stops at the end of the shorter sequence
RECURSIVE map_le(_, _)
map_le(s, t) ==
    IF s = <<>> \/ t = <<>> THEN <<>>
    ELSE <<le(Head(s), Head(t))>> \o map_le(Tail(s), Tail(t))

RECURSIVE all(_)
all(s) == IF s = <<>> THEN TRUE
          ELSE IF Head(s) THEN all(Tail(s)) ELSE FALSE

\* astuple(self) < astuple(other): tuples compare at the first position
\* where the elements are not equal
RECURSIVE tuple_lt(_, _)
tuple_lt(s, t) ==
    IF s = <<>> \/ t = <<>> THEN Len(s) < Len(t)
    ELSE IF Head(s) # Head(t) THEN Head(s) < Head(t)
         ELSE tuple_lt(Tail(s), Tail(t))

Resources_lt_tuple(self, other) == tuple_lt(astuple(self), astuple(other))

Resources_lt(self, other) == sum(astuple(self)) < sum(astuple(other))

\* any() in place of all()
RECURSIVE any(_)
any(s) == IF s = <<>> THEN FALSE
          ELSE IF Head(s) THEN TRUE ELSE any(Tail(s))

satisfy_any(self, available_resources) ==
    any(map_le(astuple(self), astuple(available_resources)))

satisfy(self, available_resources) ==
    all(map_le(astuple(self), astuple(available_resources)))

(***************************************************************************)
(* Task                                                                    *)
(***************************************************************************)
Task(id, priority, resources) ==
    [id |-> id, priority |-> priority, resources |-> resources,
     content |-> "", result |-> ""]

\* (self.priority, self.resources) < (other.priority, other.resources):
\* the resources are not swapped, so both keys ascend
Task_lt_ascending(self, other) ==
    IF self.priority # other.priority THEN self.priority < other.priority
    ELSE IF self.resources # other.resources
         THEN Resources_lt(self.resources, other.resources)
         ELSE FALSE

\* (self.priority, other.resources) < (other.priority, self.resources):
\* tuples compare at the first position where the elements are not equal.
Task_lt(self, other) ==
    IF self.priority # other.priority THEN self.priority < other.priority
    ELSE IF other.resources # self.resources
         THEN Resources_lt(other.resources, self.resources)
         ELSE FALSE

(***************************************************************************)
(* TaskQueue                                                               *)
(***************************************************************************)
None == <<>>
Some(t) == <<t>>

\* bisect_left in place of bisect_right: the index before the equal tasks
RECURSIVE bisect_left(_, _, _, _)
bisect_left(a, x, lo, hi) ==
    IF lo < hi
    THEN LET mid == (lo + hi) \div 2
         IN  IF Task_lt(a[mid + 1], x)
             THEN bisect_left(a, x, mid + 1, hi)
             ELSE bisect_left(a, x, lo, mid)
    ELSE lo

\* bisect_right(a, x): indices are Python's, a[mid] is a[mid + 1] here
RECURSIVE bisect_right(_, _, _, _)
bisect_right(a, x, lo, hi) ==
    IF lo < hi
    THEN LET mid == (lo + hi) \div 2
         IN  IF Task_lt(x, a[mid + 1])
             THEN bisect_right(a, x, lo, mid)
             ELSE bisect_right(a, x, mid + 1, hi)
    ELSE lo

\* a[i] = x in place of a.insert(i, x); at i = len it appends
insert_overwrite(a, i, x) == SubSeq(a, 1, i) \o <<x>> \o SubSeq(a, i + 2, Len(a))

\* list.insert(i, x) for 0 <= i <= len
insert(a, i, x) == SubSeq(a, 1, i) \o <<x>> \o SubSeq(a, i + 1, Len(a))

\* a.append(x) in place of insort_right(a, x)
insort_right_append(a, x) == Append(a, x)

insort_right(a, x) == insert(a, bisect_right(a, x, 0, Len(a)), x)

\* list.pop() in place of list.pop(i): the list without its last element
pop_last(a, i) == SubSeq(a, 1, Len(a) - 1)

\* list.pop(i) for 0 <= i < len: the list without its element at index i
pop(a, i) == SubSeq(a, 1, i) \o SubSeq(a, i + 2, Len(a))

\* a loop over the list from the front: the lowest index that fits
scan_front(q, available_resources, i) ==
    LET fits == {j \in 0..(Len(q) - 1) : satisfy(q[j + 1].resources, available_resources)}
    IN  IF fits = {} THEN -1
        ELSE CHOOSE j \in fits : \A k \in fits : j <= k

\* the loop of get_task from index i down to 0: the index of the first task
\* that fits, -1 when the loop runs out
RECURSIVE scan(_, _, _)
scan(q, available_resources, i) ==
    IF i < 0 THEN -1
    ELSE IF satisfy(q[i + 1].resources, available_resources) THEN i
         ELSE scan(q, available_resources, i - 1)

\* get_task that falls back to the last task when the loop finds none
get_task_fallback(q, available_resources) ==
    IF q = <<>> THEN [queue |-> q, ret |-> None, index |-> -1]
    ELSE LET i == scan(q, available_resources, Len(q) - 1)
         IN  IF i >= 0
             THEN [queue |-> pop(q, i), ret |-> Some(q[i + 1]), index |-> i]
             ELSE [queue |-> pop(q, Len(q) - 1), ret |-> Some(q[Len(q)]),
                   index |-> Len(q) - 1]

get_task(q, available_resources) ==
    IF q = <<>> THEN [queue |-> q, ret |-> None, index |-> -1]
    ELSE LET i == scan(q, available_resources, Len(q) - 1)
         IN  IF i >= 0
             THEN [queue |-> pop(q, i), ret |-> Some(q[i + 1]), index |-> i]
             ELSE [queue |-> q, ret |-> None, index |-> -1]

(***************************************************************************)
(* Inputs                                                                  *)
(***************************************************************************)
Cube(lo, hi) == {Resources(r, c, g) : r \in lo..hi, c \in lo..hi, g \in lo..hi}

\* requirements of magnitude 1, 1 and 2
ResourcePool == {Resources(1, 0, 0), Resources(0, 0, 1), Resources(0, 1, 1)}

TaskIds == {1, 2}

TaskPool == {Task(i, p, v) : i \in TaskIds, p \in 1..MaxPriority, v \in ResourcePool}

\* availabilities that fit none, one, two and all of the requirements
AvailPool == {Resources(-1, -1, -1), Resources(1, 0, 0), Resources(0, 1, 1),
              Resources(1, 1, 1)}

RefTask(i) ==
    CASE i = 1 -> Task(1, 1, Resources(3, 1, 2))
      [] i = 2 -> Task(2, 4, Resources(1, 1, 5))
      [] i = 3 -> Task(3, 6, Resources(2, 8, 0))
      [] i = 4 -> Task(4, 6, Resources(8, 1, 0))
      [] i = 5 -> Task(5, 7, Resources(2, 2, 2))
      [] i = 6 -> Task(6, 2, Resources(2, 1, 2))
      [] i = 7 -> Task(7, 7, Resources(6, 6, 6))
      [] i = 8 -> Task(8, 7, Resources(4, 4, 4))

RefIds == 1..8

RefAvail == {Resources(-1, -1, -1), Resources(1, 1, 10), Resources(3, 3, 3)}

SatPool == Cube(0 - MaxVal, MaxVal)

(***************************************************************************)
(* Spec: any calls                                                         *)
(***************************************************************************)
NoCall == [op |-> "init"]

InitLt0 ==
    /\ lhs = Task(0, 0, Resources(0, 0, 0))
    /\ rhs = Task(0, 0, Resources(0, 0, 0))
    /\ less = <<>>

InitRun0 ==
    /\ put = EmptyBag
    /\ got = EmptyBag
    /\ start = <<>>
    /\ log = <<>>

NoRequeue == [done |-> FALSE]

Idle == [at |-> "idle"]

NoPop == [done |-> FALSE]

InitConc0 ==
    /\ pc = Idle
    /\ dirty = FALSE
    /\ raced = FALSE
    /\ lastPop = NoPop

InitExtra == InitLt0 /\ InitRun0 /\ requeue = NoRequeue /\ InitConc0

AddCall(t) == [op |-> "add_task", task |-> t]

GetCall(a, r) == [op |-> "get_task", available |-> a, ret |-> r.ret, index |-> r.index]

Init ==
    /\ queue = <<>>
    /\ prev = <<>>
    /\ call = NoCall
    /\ added = {}
    /\ calls = <<>>
    /\ required = Resources(0, 0, 0)
    /\ available = Resources(0, 0, 0)
    /\ result = <<>>
    /\ InitExtra

add_task(t) ==
    /\ Len(queue) < MaxQueue
    /\ queue' = insort_right(queue, t)
    /\ prev' = queue
    /\ call' = AddCall(t)
    /\ UNCHANGED <<added, calls, required, available, result, extra>>

GetTask(a) ==
    LET r == get_task(queue, a)
    IN  /\ queue' = r.queue
        /\ prev' = queue
        /\ call' = GetCall(a, r)
        /\ UNCHANGED <<added, calls, required, available, result, extra>>

Next ==
    \/ \E t \in TaskPool : add_task(t)
    \/ \E a \in AvailPool : GetTask(a)

Spec == Init /\ [][Next]_vars

(***************************************************************************)
(* SpecRef: the reference tasks in any insertion order, then polls          *)
(***************************************************************************)
AddRef(i) ==
    /\ i \notin added
    /\ calls = <<>>
    /\ queue' = insort_right(queue, RefTask(i))
    /\ prev' = queue
    /\ call' = AddCall(RefTask(i))
    /\ added' = added \cup {i}
    /\ UNCHANGED <<calls, required, available, result, extra>>

PollRef(a) ==
    /\ added = RefIds
    /\ Len(calls) < MaxCalls
    /\ LET r == get_task(queue, a)
       IN  /\ queue' = r.queue
           /\ prev' = queue
           /\ call' = GetCall(a, r)
           /\ calls' = Append(calls, [available |-> a, ret |-> r.ret])
    /\ UNCHANGED <<added, required, available, result, extra>>

NextRef ==
    \/ \E i \in RefIds : AddRef(i)
    \/ \E a \in RefAvail : PollRef(a)

SpecRef == Init /\ [][NextRef]_vars

(***************************************************************************)
(* SpecSat: Resources.satisfy on every pair of vectors                     *)
(***************************************************************************)
InitSat ==
    /\ queue = <<>>
    /\ prev = <<>>
    /\ call = NoCall
    /\ added = {}
    /\ calls = <<>>
    /\ required \in SatPool
    /\ available \in SatPool
    /\ result = <<>>
    /\ InitExtra

CallSatisfy ==
    /\ result = <<>>
    /\ result' = <<satisfy(required, available)>>
    /\ UNCHANGED <<queue, prev, call, added, calls, required, available, extra>>

NextSat == CallSatisfy

SpecSat == InitSat /\ [][NextSat]_vars

(***************************************************************************)
(* SpecLt: Task.__lt__ on every pair of tasks                              *)
(***************************************************************************)
LtPool ==
    {[id |-> i, priority |-> p, resources |-> v, content |-> c, result |-> r] :
        i \in TaskIds, p \in 1..MaxPriority, v \in ResourcePool,
        c \in {"", "c"}, r \in {"", "r"}}

InitLt ==
    /\ queue = <<>>
    /\ prev = <<>>
    /\ call = NoCall
    /\ added = {}
    /\ calls = <<>>
    /\ required = Resources(0, 0, 0)
    /\ available = Resources(0, 0, 0)
    /\ result = <<>>
    /\ lhs \in LtPool
    /\ rhs \in LtPool
    /\ less = <<>>
    /\ InitRun0
    /\ requeue = NoRequeue
    /\ InitConc0

CallLt ==
    /\ less = <<>>
    /\ less' = <<Task_lt(lhs, rhs), Task_lt(rhs, lhs)>>
    /\ UNCHANGED <<queue, prev, call, added, calls, required, available, result,
                   lhs, rhs, runVars, reqVars, concVars>>

NextLt == CallLt

SpecLt == InitLt /\ [][NextLt]_vars

(***************************************************************************)
(* SpecRun: fresh ids, with the history of the calls                       *)
(***************************************************************************)
RunPriorities == {1, 2}

\* availabilities that fit the requirements without ram, and all of them
RunAvail == {Resources(0, 1, 1), Resources(1, 1, 1)}

RunAdd(p, v) ==
    /\ BagCardinality(put) < MaxAdds
    /\ LET t == Task(BagCardinality(put) + 1, p, v)
       IN  /\ queue' = insort_right(queue, t)
           /\ prev' = queue
           /\ call' = AddCall(t)
           /\ put' = put (+) SetToBag({t})
           /\ start' = queue'
           /\ log' = <<>>
    /\ UNCHANGED <<added, calls, required, available, result, ltVars, got, reqVars,
                   concVars>>

\* between two adds, at most one poll more than the last add left tasks
RunGet(a) ==
    /\ Len(log) <= Len(start)
    /\ LET r == get_task(queue, a)
       IN  /\ queue' = r.queue
           /\ prev' = queue
           /\ call' = GetCall(a, r)
           /\ got' = IF r.ret = None THEN got ELSE got (+) SetToBag({r.ret[1]})
           /\ log' = Append(log, [available |-> a, ret |-> r.ret, before |-> queue])
    /\ UNCHANGED <<added, calls, required, available, result, ltVars, put, start,
                   reqVars, concVars>>

NextRun ==
    \/ \E p \in RunPriorities, v \in ResourcePool : RunAdd(p, v)
    \/ \E a \in RunAvail : RunGet(a)

SpecRun == Init /\ [][NextRun]_vars

(***************************************************************************)
(* SpecRequeue: any calls, and add_task of the task just returned           *)
(***************************************************************************)
ReqAdd(t) ==
    /\ Len(queue) < MaxQueue
    /\ queue' = insort_right(queue, t)
    /\ prev' = queue
    /\ call' = AddCall(t)
    /\ requeue' = NoRequeue
    /\ UNCHANGED <<added, calls, required, available, result, ltVars, runVars,
                   concVars>>

ReqGet(a) ==
    LET r == get_task(queue, a)
    IN  /\ queue' = r.queue
        /\ prev' = queue
        /\ call' = GetCall(a, r)
        /\ requeue' = NoRequeue
        /\ UNCHANGED <<added, calls, required, available, result, ltVars, runVars,
                   concVars>>

\* task = queue.get_task(a) has just returned a task: queue.add_task(task)
Requeue ==
    /\ call.op = "get_task"
    /\ call.ret # None
    /\ queue' = insort_right(queue, call.ret[1])
    /\ prev' = queue
    /\ call' = AddCall(call.ret[1])
    /\ requeue' = [done |-> TRUE, before |-> prev, index |-> call.index]
    /\ UNCHANGED <<added, calls, required, available, result, ltVars, runVars,
                   concVars>>

NextRequeue ==
    \/ \E t \in TaskPool : ReqAdd(t)
    \/ \E a \in AvailPool : ReqGet(a)
    \/ Requeue

SpecRequeue == Init /\ [][NextRequeue]_vars

(***************************************************************************)
(* SpecConc: two callers, no lock                                          *)
(*                                                                         *)
(* The first caller's add_task is the search of insort_right for the index  *)
(* (Locate) and then the insert at that index (Mutate); its get_task is the *)
(* loop up to the task that fits (Test) and then pop(i) (Pop).  The second  *)
(* caller's add_task and get_task each run as one step, at any point.       *)
(***************************************************************************)
ConcResources == {Resources(1, 0, 0), Resources(0, 1, 1)}

ConcAvail == {Resources(1, 0, 0), Resources(1, 1, 1)}

\* the tasks of the first caller have id 1, those of the second id 2
ConcTasks(i) == {Task(i, p, v) : p \in RunPriorities, v \in ConcResources}

Min(a, b) == IF a < b THEN a ELSE b

concFrame == <<prev, call, added, calls, required, available, result, ltVars,
               runVars, reqVars>>

Locate(t) ==
    /\ pc.at = "idle"
    /\ Len(queue) < MaxConcQueue
    /\ pc' = [at |-> "located", task |-> t,
              index |-> bisect_right(queue, t, 0, Len(queue))]
    /\ dirty' = FALSE
    /\ UNCHANGED <<queue, raced, lastPop, concFrame>>

\* list.insert takes an index past the end as the end
Mutate ==
    /\ pc.at = "located"
    /\ queue' = insert(queue, Min(pc.index, Len(queue)), pc.task)
    /\ raced' = (raced \/ dirty)
    /\ pc' = Idle
    /\ dirty' = FALSE
    /\ UNCHANGED <<lastPop, concFrame>>

\* the loop of get_task up to the return statement; an empty queue and a
\* loop that runs out return None at once
Test(a) ==
    /\ pc.at = "idle"
    /\ LET i == scan(queue, a, Len(queue) - 1)
       IN  IF queue = <<>> \/ i < 0
           THEN /\ lastPop' = [done |-> TRUE, available |-> a, tested |-> None,
                               ret |-> None, error |-> FALSE, dirty |-> FALSE]
                /\ UNCHANGED pc
           ELSE /\ pc' = [at |-> "tested", available |-> a, index |-> i,
                          tested |-> queue[i + 1]]
                /\ UNCHANGED lastPop
    /\ dirty' = FALSE
    /\ UNCHANGED <<queue, raced, concFrame>>

\* self.queue.pop(i): IndexError when the queue has no index i any more
Pop ==
    /\ pc.at = "tested"
    /\ IF pc.index < Len(queue)
       THEN /\ queue' = pop(queue, pc.index)
            /\ lastPop' = [done |-> TRUE, available |-> pc.available,
                           tested |-> Some(pc.tested),
                           ret |-> Some(queue[pc.index + 1]),
                           error |-> FALSE, dirty |-> dirty]
       ELSE /\ queue' = queue
            /\ lastPop' = [done |-> TRUE, available |-> pc.available,
                           tested |-> Some(pc.tested), ret |-> None,
                           error |-> TRUE, dirty |-> dirty]
    /\ raced' = (raced \/ dirty)
    /\ pc' = Idle
    /\ dirty' = FALSE
    /\ UNCHANGED concFrame

OtherAdd(t) ==
    /\ Len(queue) + (IF pc.at = "located" THEN 1 ELSE 0) < MaxConcQueue
    /\ queue' = insort_right(queue, t)
    /\ dirty' = (pc.at # "idle")
    /\ UNCHANGED <<pc, raced, lastPop, concFrame>>

OtherGet(a) ==
    LET r == get_task(queue, a)
    IN  /\ queue' = r.queue
        /\ dirty' = (dirty \/ (pc.at # "idle" /\ r.ret # None))
        /\ UNCHANGED <<pc, raced, lastPop, concFrame>>

NextConc ==
    \/ \E t \in ConcTasks(1) : Locate(t)
    \/ Mutate
    \/ \E a \in ConcAvail : Test(a)
    \/ Pop
    \/ \E t \in ConcTasks(2) : OtherAdd(t)
    \/ \E a \in ConcAvail : OtherGet(a)

SpecConc == Init /\ [][NextConc]_vars

(***************************************************************************)
(* Properties                                                              *)
(***************************************************************************)
Magnitude(r) == r.ram + r.cpu_cores + r.gpu_count

Dominated(req, avail) ==
    /\ req.ram <= avail.ram
    /\ req.cpu_cores <= avail.cpu_cores
    /\ req.gpu_count <= avail.gpu_count

\* a is placed before b: lower priority, or equal priority and larger magnitude
Before(a, b) ==
    \/ a.priority < b.priority
    \/ a.priority = b.priority /\ Magnitude(a.resources) > Magnitude(b.resources)

\* 1-based positions of prev whose task fits the availability of the last call
Admissible == {i \in 1..Len(prev) : Dominated(prev[i].resources, call.available)}

Returned == call.op = "get_task" /\ call.ret # None

\* C1: every adjacent pair (a, b) of the stored sequence has
\* a.priority < b.priority, or equal priorities and sum(a) >= sum(b).
C1_Sorted ==
    \A i \in 1..(Len(queue) - 1) :
        \/ queue[i].priority < queue[i + 1].priority
        \/ /\ queue[i].priority = queue[i + 1].priority
           /\ Magnitude(queue[i].resources) >= Magnitude(queue[i + 1].resources)

\* a full queue reached by an add_task that placed the task in the middle,
\* with a priority step and a magnitude step among the stored tasks
C1_Witness ==
    /\ call.op = "add_task"
    /\ Len(queue) = MaxQueue
    /\ queue[2] = call.task
    /\ queue[1] # call.task
    /\ \E i \in 1..(Len(queue) - 1) : queue[i].priority < queue[i + 1].priority
    /\ \E i \in 1..(Len(queue) - 1) :
          /\ queue[i].priority = queue[i + 1].priority
          /\ Magnitude(queue[i].resources) > Magnitude(queue[i + 1].resources)

\* C2: a task returned by get_task(available) has a requirement that is
\* componentwise <= available in ram, cpu_cores and gpu_count.
C2_Admissible ==
    Returned =>
        /\ call.ret[1].resources.ram <= call.available.ram
        /\ call.ret[1].resources.cpu_cores <= call.available.cpu_cores
        /\ call.ret[1].resources.gpu_count <= call.available.gpu_count

\* a task returned after the scan passed over a task that fits in two of
\* the three dimensions only
C2_Witness ==
    /\ Returned
    /\ call.index + 1 < Len(prev)
    /\ \E j \in (call.index + 2)..Len(prev) :
          /\ prev[j].resources.ram <= call.available.ram
          /\ prev[j].resources.cpu_cores <= call.available.cpu_cores
          /\ prev[j].resources.gpu_count > call.available.gpu_count

\* C3: when some stored task fits, get_task returns a task, and it is the
\* one at the greatest index among the stored tasks that fit.
C3_Greedy ==
    (call.op = "get_task" /\ Admissible # {}) =>
        /\ call.ret # None
        /\ call.index + 1 \in Admissible
        /\ \A j \in Admissible : j <= call.index + 1
        /\ call.ret[1] = prev[call.index + 1]

\* two stored tasks fit, and the task at the back does not
C3_Witness ==
    /\ Returned
    /\ Cardinality(Admissible) >= 2
    /\ Len(prev) \notin Admissible

\* C4: get_task on an empty queue, or on a queue where no stored task fits,
\* returns None and leaves the stored sequence unchanged.
C4_NoFit ==
    (call.op = "get_task" /\ (prev = <<>> \/ Admissible = {})) =>
        /\ call.ret = None
        /\ queue = prev

\* a full queue, none of whose tasks fits a non-negative availability
C4_Witness ==
    /\ call.op = "get_task"
    /\ Len(prev) = MaxQueue
    /\ Admissible = {}
    /\ call.available.ram >= 0
    /\ call.ret = None

\* C5: a successful get_task on a queue of length n leaves length n-1: the
\* previous sequence with the element at the selected index deleted.
C5_Removal ==
    Returned =>
        /\ Len(queue) = Len(prev) - 1
        /\ call.index + 1 \in 1..Len(prev)
        /\ prev[call.index + 1] = call.ret[1]
        /\ \A j \in 1..Len(queue) :
              queue[j] = IF j < call.index + 1 THEN prev[j] ELSE prev[j + 1]

\* the task was taken from the middle of a full queue
C5_Witness ==
    /\ Returned
    /\ Len(prev) = MaxQueue
    /\ call.index + 1 > 1
    /\ call.index + 1 < Len(prev)

\* C6: add_task(t) on a queue of length n gives length n+1, the new sequence
\* holds t, and deleting that occurrence of t gives the previous sequence.
C6_Insertion ==
    call.op = "add_task" =>
        /\ Len(queue) = Len(prev) + 1
        /\ \E k \in 1..Len(queue) :
              /\ queue[k] = call.task
              /\ \A j \in 1..Len(prev) :
                    prev[j] = IF j < k THEN queue[j] ELSE queue[j + 1]

\* the task was inserted strictly inside the previous sequence
C6_Witness ==
    /\ call.op = "add_task"
    /\ Len(queue) = MaxQueue
    /\ Before(queue[1], call.task)
    /\ Before(call.task, queue[Len(queue)])

\* C7: the returned task has the maximum priority among the stored tasks
\* that fit, and the minimum magnitude among those of that priority.
C7_MostUrgent ==
    Returned =>
        \A i \in Admissible :
            /\ prev[i].priority <= call.ret[1].priority
            /\ prev[i].priority = call.ret[1].priority =>
                  Magnitude(call.ret[1].resources) <= Magnitude(prev[i].resources)

\* a task is returned past a more urgent task that does not fit, and a
\* larger task of the same priority fits too
C7_Witness ==
    /\ Returned
    /\ \E i \in 1..Len(prev) :
          /\ prev[i].priority > call.ret[1].priority
          /\ i \notin Admissible
    /\ \E i \in Admissible :
          /\ prev[i].priority = call.ret[1].priority
          /\ Magnitude(prev[i].resources) > Magnitude(call.ret[1].resources)

\* position of reference task i among the reference tasks of ids S
Rank(i, S) == 1 + Cardinality({j \in S : Before(RefTask(j), RefTask(i))})

ids(q) == [k \in 1..Len(q) |-> q[k].id]

\* C8: the reference tasks (pairwise distinct keys) added in any order give
\* one stored sequence, fixed by the set added; all eight give the id order
\* [1, 6, 2, 3, 4, 7, 8, 5].
C8_OrderIndependent ==
    calls = <<>> =>
        /\ Len(queue) = Cardinality(added)
        /\ \A i \in added : queue[Rank(i, added)] = RefTask(i)
        /\ added = RefIds => ids(queue) = <<1, 6, 2, 3, 4, 7, 8, 5>>

\* all eight are stored and task 1, the first of the test's order, came last
C8_Witness ==
    /\ calls = <<>>
    /\ added = RefIds
    /\ call.op = "add_task"
    /\ call.task.id = 1
    /\ prev[1].id = 6

Unfit == Resources(-1, -1, -1)

Scenario == <<Resources(1, 1, 10), Resources(3, 3, 3), Resources(3, 3, 3)>>

ScenarioIds == <<2, 5, 6>>

IsFit(c) == c.available # Unfit

\* C9: on the eight reference tasks get_task((1,1,10)), get_task((3,3,3)),
\* get_task((3,3,3)) return ids 2, 5, 6, and get_task((-1,-1,-1)) returns
\* None wherever it is issued among them.
C9_Scenario ==
    /\ \A k \in 1..Len(calls) : calls[k].available = Unfit => calls[k].ret = None
    /\ LET p == SelectSeq(calls, IsFit)
       IN  \A k \in 1..Len(p) :
              (k <= Len(Scenario) /\ \A j \in 1..k : p[j].available = Scenario[j]) =>
                  /\ p[k].ret # None
                  /\ p[k].ret[1].id = ScenarioIds[k]

\* the three polls were made, with a (-1,-1,-1) poll before and after them
C9_Witness ==
    /\ Len(calls) = 5
    /\ calls[1].available = Unfit
    /\ \A k \in 1..3 : calls[k + 1].available = Scenario[k]
    /\ calls[5].available = Unfit
    /\ Len(queue) = 5

\* C10: required.satisfy(available) is true exactly when required is <=
\* available in ram, in cpu_cores and in gpu_count, negative values included.
C10_Dominance ==
    result # <<>> =>
        (result[1] <=> /\ required.ram <= available.ram
                       /\ required.cpu_cores <= available.cpu_cores
                       /\ required.gpu_count <= available.gpu_count)

\* a vector of smaller magnitude, with a negative component, that fails
C10_Witness ==
    /\ result = <<FALSE>>
    /\ Magnitude(required) < Magnitude(available)
    /\ required.ram < 0
    /\ required.gpu_count = available.gpu_count

\* same priority and same magnitude
Equivalent(a, b) ==
    /\ a.priority = b.priority
    /\ Magnitude(a.resources) = Magnitude(b.resources)

\* C11: a < b by Task.__lt__ exactly when a.priority < b.priority, or the
\* priorities are equal and sum(a.resources) > sum(b.resources); id, content
\* and result play no part, and tasks of equal priority and magnitude are
\* not less than each other.
C11_Comparator ==
    less # <<>> =>
        /\ less[1] <=> \/ lhs.priority < rhs.priority
                       \/ /\ lhs.priority = rhs.priority
                          /\ Magnitude(lhs.resources) > Magnitude(rhs.resources)
        /\ Equivalent(lhs, rhs) => (~less[1] /\ ~less[2])

\* two tasks of equal priority and magnitude that differ in id, content,
\* result and in the composition of their requirement
C11_Witness ==
    /\ less = <<FALSE, FALSE>>
    /\ Equivalent(lhs, rhs)
    /\ lhs.resources # rhs.resources
    /\ lhs.id # rhs.id
    /\ lhs.content # rhs.content
    /\ lhs.result # rhs.result

Range(q) == {q[i] : i \in 1..Len(q)}

BagOfSeq(q) == [t \in Range(q) |-> Cardinality({i \in 1..Len(q) : q[i] = t})]

\* C13: the stored tasks are, as a multiset, the tasks added minus the tasks
\* returned; a returned task is one that was added, unchanged; with fresh
\* ids no task is returned twice.
C13_Conservation ==
    /\ BagOfSeq(queue) (+) got = put
    /\ Returned => BagIn(call.ret[1], put)
    /\ \A t \in BagToSet(got) : CopiesIn(t, got) = 1

\* every add was made, one task came back from the middle of the queue and
\* two are still stored
C13_Witness ==
    /\ BagCardinality(put) = MaxAdds
    /\ BagCardinality(got) = 1
    /\ Len(queue) = MaxAdds - 1
    /\ Returned
    /\ call.index + 1 < Len(prev)

\* every task stored at call j of the log fits the availability of call j,
\* for the calls s..k
Draining(s, k) ==
    \A j \in s..k : \A i \in 1..Len(log[j].before) :
        Dominated(log[j].before[i].resources, log[j].available)

\* C12: polls that each fit every stored task, with no add between them,
\* return an n-task queue back to front: priorities do not increase,
\* magnitudes do not decrease within a priority; the n-th poll empties the
\* queue and the next returns None.
C12_DrainOrder ==
    \A s \in 1..Len(log) : \A k \in s..Len(log) :
        Draining(s, k) =>
            LET q0 == log[s].before
                n == Len(q0)
                m == k - s + 1
            IN  /\ m <= n => /\ log[k].ret = Some(q0[n - m + 1])
                             /\ k = Len(log) => queue = SubSeq(q0, 1, n - m)
                /\ m > n => log[k].ret = None /\ log[k].before = <<>>
                /\ (1 < m /\ m <= n) =>
                      LET a == log[k - 1].ret[1]
                          b == log[k].ret[1]
                      IN  \/ a.priority > b.priority
                          \/ /\ a.priority = b.priority
                             /\ Magnitude(a.resources) <= Magnitude(b.resources)

\* a queue of MaxAdds tasks, with a priority step and a magnitude step, was
\* drained by MaxAdds polls and one more poll returned None
C12_Witness ==
    /\ Len(start) = MaxAdds
    /\ Len(log) = MaxAdds + 1
    /\ Draining(1, Len(log))
    /\ log[1].available # log[2].available
    /\ log[1].ret[1].priority > log[MaxAdds].ret[1].priority
    /\ \E k \in 1..(MaxAdds - 1) :
          /\ log[k].ret[1].priority = log[k + 1].ret[1].priority
          /\ Magnitude(log[k].ret[1].resources) < Magnitude(log[k + 1].ret[1].resources)
    /\ log[Len(log)].ret = None
    /\ queue = <<>>

\* C14: with no add, while every poll fits the task t stored at index p of
\* an n-task queue, each poll returns t or a task stored behind t, so t is
\* returned by the (n-p)-th poll at the latest.
C14_BoundedResponse ==
    \A s \in 1..Len(log) : \A p \in 0..(Len(log[s].before) - 1) :
        LET q0 == log[s].before
            n == Len(q0)
            t == q0[p + 1]
        IN  \A k \in s..Len(log) :
                (/\ \A j \in s..k : Dominated(t.resources, log[j].available)
                 /\ \A j \in s..(k - 1) : log[j].ret # Some(t)) =>
                    /\ log[k].ret # None
                    /\ \E i \in (p + 1)..n : log[k].ret = Some(q0[i])
                    /\ k - s + 1 <= n - p

\* the task at the front of a full queue came back at the last poll it
\* could, and a task behind it that does not fit was passed over and stays
C14_Witness ==
    /\ Len(start) = MaxAdds
    /\ Len(log) = MaxAdds - 1
    /\ \A j \in 1..Len(log) : Dominated(start[1].resources, log[j].available)
    /\ log[Len(log)].ret = Some(start[1])
    /\ Len(queue) = 1
    /\ ~Dominated(queue[1].resources, log[1].available)

\* C15: add_task puts the task behind every stored task of the same priority
\* and magnitude; when all stored tasks of the returned task's priority and
\* magnitude fit, get_task returns the one added last.
C15_LastInFirstOut ==
    /\ call.op = "add_task" =>
          \E k \in 1..Len(queue) :
              /\ queue[k] = call.task
              /\ \A j \in 1..Len(queue) :
                    (j # k /\ Equivalent(queue[j], call.task)) => j < k
    /\ Returned =>
          LET same == {i \in 1..Len(prev) : Equivalent(prev[i], call.ret[1])}
          IN  same \subseteq Admissible =>
                  \A i \in same : prev[i].id <= call.ret[1].id

\* three stored tasks of one priority and magnitude, not all of one
\* composition, all fit, and the last added comes back
C15_Witness ==
    /\ Returned
    /\ Len(prev) = MaxAdds
    /\ \A i \in 1..Len(prev) : Equivalent(prev[i], call.ret[1])
    /\ \E i \in 1..Len(prev) : prev[i].resources # call.ret[1].resources
    /\ Admissible = 1..Len(prev)
    /\ call.ret[1].id = MaxAdds

Keys(q) == [i \in 1..Len(q) |-> <<q[i].priority, Magnitude(q[i].resources)>>]

\* C18: add_task of the task get_task has just returned restores the
\* multiset of stored tasks and the sequence of (priority, magnitude) keys;
\* it restores the stored sequence itself when no task behind the returned
\* one was of its priority and magnitude.
C18_Requeue ==
    requeue.done =>
        LET q0 == requeue.before
            t == q0[requeue.index + 1]
        IN  /\ call.task = t
            /\ BagOfSeq(queue) = BagOfSeq(q0)
            /\ Keys(queue) = Keys(q0)
            /\ (\A i \in (requeue.index + 2)..Len(q0) : ~Equivalent(q0[i], t)) =>
                  queue = q0

\* the task came from between two tasks of its priority and magnitude, and
\* went back behind both
C18_Witness ==
    /\ requeue.done
    /\ Len(queue) = MaxQueue
    /\ requeue.index = 1
    /\ \A i \in 1..Len(queue) : Equivalent(queue[i], call.task)
    /\ queue[Len(queue)] = call.task
    /\ queue # requeue.before

InOrder(q) ==
    \A i \in 1..(Len(q) - 1) :
        \/ Before(q[i], q[i + 1])
        \/ Equivalent(q[i], q[i + 1])

\* C16: without a lock, a call between the search and the insert of an
\* add_task can leave the stored sequence out of order; as long as no second
\* step has run on a queue changed since its first step, it is in order.
C16_AtomicInOrder == ~raced => InOrder(queue)

\* the sequence is out of order, and the two-step caller's task, inserted at
\* a stale index, stands in front of the other caller's task
C16_Witness ==
    /\ ~InOrder(queue)
    /\ pc.at = "idle"
    /\ Len(queue) = 2
    /\ queue[1].id = 1
    /\ queue[2].id = 2

\* C17: a get_task whose pop(i) runs on the queue its test saw returns the
\* task tested, which fits; when another call changed the queue in between,
\* it can return a task that was not tested and does not fit.
C17_TestedReturned ==
    (lastPop.done /\ ~lastPop.dirty) =>
        /\ ~lastPop.error
        /\ lastPop.ret = lastPop.tested
        /\ lastPop.ret # None =>
              Dominated(lastPop.ret[1].resources, lastPop.available)

\* pop(i) returned the other caller's task, which was not tested and does
\* not fit the availability
C17_Witness ==
    /\ lastPop.done
    /\ lastPop.dirty
    /\ lastPop.ret # None
    /\ lastPop.ret # lastPop.tested
    /\ lastPop.ret[1].id = 2
    /\ ~Dominated(lastPop.ret[1].resources, lastPop.available)

====
